---- MODULE Spec2Model ----
(***************************************************************************)
(* A model of mysh-rs (src/src/interpreter.rs): the line classifier, the   *)
(* parse state machine, and the environment executor.                      *)
(*                                                                         *)
(* A string is a sequence of one-character strings, so that trimming,      *)
(* suffix tests, searching and splitting are computed as the code does.    *)
(* Positions are 1-based; a search that finds nothing yields 0.            *)
(***************************************************************************)
EXTENDS Integers, Sequences, FiniteSets, TLC

VARIABLES pc, nread, last, parser, program, err,
          main_func, table, ip, calls, outcomes, reports,
          discarded, fn_in, fn_out

vars == <<pc, nread, last, parser, program, err,
          main_func, table, ip, calls, outcomes, reports,
          discarded, fn_in, fn_out>>

(* The number of lines the line source yields at most. *)
MaxLines == 5

(***************************************************************************)
(* The lines the line source may yield: every shape the classifier         *)
(* distinguishes, with and without surrounding whitespace.                 *)
(***************************************************************************)
InputLines ==
  { <<>>,                                   \* ""
    <<" ", "\t">>,                          \* whitespace only
    <<"}">>,                                \* "}"
    <<"m", "a", "i", "n", "(", ")", "{">>,  \* "main(){"
    <<" ", "f", "(", ")", "{">>,            \* " f(){"
    <<"1", "f", "(", ")", "{">>,            \* "1f(){"
    <<"a", "=", "b", "(", ")", "{">>,       \* "a=b(){"
    <<"x", "=", "a">>,                      \* "x=a"
    <<"x", "=", "$", "y">>,                 \* "x=$y"
    <<"y", "=", "b", " ", "c">>,            \* "y=b c"
    <<"x", "=", "a", "=", "b">>,            \* "x=a=b"
    <<"=", "a">>,                           \* "=a"
    <<"e", " ", "a", "=", "b">>,            \* "e a=b"
    <<"e">>,                                \* "e"
    <<"$", "x">>,                           \* "$x"
    <<"e", " ", "$", "x", "\t", "$", "y", " ">> }  \* "e $x\t$y "

(***************************************************************************)
(* String primitives of the standard library, as the code uses them.       *)
(***************************************************************************)
IsWhitespace(c) == c \in {" ", "\t"}

IsDigit(c) == c \in {"0", "1", "2", "3", "4", "5", "6", "7", "8", "9"}

RECURSIVE trim_start(_)
trim_start(s) ==
  IF s = <<>> THEN s
  ELSE IF IsWhitespace(Head(s)) THEN trim_start(Tail(s)) ELSE s

RECURSIVE trim_end(_)
trim_end(s) ==
  IF s = <<>> THEN s
  ELSE IF IsWhitespace(s[Len(s)]) THEN trim_end(SubSeq(s, 1, Len(s) - 1)) ELSE s

trim(s) == trim_end(trim_start(s))

ends_with(s, suffix) ==
  /\ Len(s) >= Len(suffix)
  /\ SubSeq(s, Len(s) - Len(suffix) + 1, Len(s)) = suffix

starts_with(s, c) == Len(s) >= 1 /\ s[1] = c

(* The first position of s holding a character of set, 0 when there is none. *)
find(s, set) ==
  LET hits == {i \in 1..Len(s) : s[i] \in set}
  IN IF hits = {} THEN 0 ELSE CHOOSE i \in hits : \A j \in hits : i <= j

RECURSIVE take_word(_)
take_word(s) ==
  IF s = <<>> \/ IsWhitespace(Head(s)) THEN <<>>
  ELSE <<Head(s)>> \o take_word(Tail(s))

RECURSIVE split_whitespace(_)
split_whitespace(s) ==
  LET t == trim_start(s)
  IN IF t = <<>> THEN <<>>
     ELSE LET w == take_word(t)
          IN <<w>> \o split_whitespace(SubSeq(t, Len(w) + 1, Len(t)))

(***************************************************************************)
(* name_valid                                                              *)
(***************************************************************************)
BadNameChars == {"{", "}", "(", ")", "="}

name_valid_allows_eq(name) ==
  /\ Len(name) >= 1
  /\ ~IsDigit(name[1])
  /\ find(name, BadNameChars \ {"="}) = 0

name_valid(name) ==
  /\ Len(name) >= 1
  /\ ~IsDigit(name[1])
  /\ find(name, BadNameChars) = 0

(***************************************************************************)
(* LexicalPattern and LexicalPattern::from_line.  None is the absence of   *)
(* a pattern (Option::None).                                               *)
(***************************************************************************)
None == [kind |-> "None"]
Empty == [kind |-> "Empty"]
FuncEnd == [kind |-> "FuncEnd"]
FuncStart(name) == [kind |-> "FuncStart", name |-> name]
StatementPattern(st) == [kind |-> "Statement", statement |-> st]

Assignment(variable, value) ==
  [kind |-> "Assignment", variable |-> variable, value |-> value]
Execution(args) == [kind |-> "Execution", args |-> args]

FuncStartSuffix == <<"(", ")", "{">>

from_line_no_empty_check(s) ==
  LET trimmed == trim(s)
      idx == find(trimmed, {"="})
  IN IF trimmed = <<"}">> THEN FuncEnd
     ELSE IF ends_with(trimmed, FuncStartSuffix)
       THEN LET func_name == SubSeq(trimmed, 1, Len(trimmed) - 3)
            IN IF ~name_valid(func_name) THEN None ELSE FuncStart(func_name)
     ELSE IF idx # 0
       THEN LET var_name == SubSeq(trimmed, 1, idx - 1)
            IN IF ~name_valid(var_name) THEN None
               ELSE StatementPattern(
                      Assignment(var_name, SubSeq(trimmed, idx + 1, Len(trimmed))))
     ELSE StatementPattern(Execution(split_whitespace(trimmed)))

from_line_invalid_falls_through(s) ==
  LET trimmed == trim(s)
      idx == find(trimmed, {"="})
  IN IF trimmed = <<>> THEN Empty
     ELSE IF trimmed = <<"}">> THEN FuncEnd
     ELSE IF ends_with(trimmed, FuncStartSuffix)
       THEN LET func_name == SubSeq(trimmed, 1, Len(trimmed) - 3)
            IN IF ~name_valid(func_name) THEN None ELSE FuncStart(func_name)
     ELSE IF idx # 0 /\ name_valid(SubSeq(trimmed, 1, idx - 1))
       THEN StatementPattern(
              Assignment(SubSeq(trimmed, 1, idx - 1),
                         SubSeq(trimmed, idx + 1, Len(trimmed))))
     ELSE StatementPattern(Execution(split_whitespace(trimmed)))

from_line_assignment_first(s) ==
  LET trimmed == trim(s)
      idx == find(trimmed, {"="})
  IN IF trimmed = <<>> THEN Empty
     ELSE IF trimmed = <<"}">> THEN FuncEnd
     ELSE IF idx # 0
       THEN LET var_name == SubSeq(trimmed, 1, idx - 1)
            IN IF ~name_valid(var_name) THEN None
               ELSE StatementPattern(
                      Assignment(var_name, SubSeq(trimmed, idx + 1, Len(trimmed))))
     ELSE IF ends_with(trimmed, FuncStartSuffix)
       THEN LET func_name == SubSeq(trimmed, 1, Len(trimmed) - 3)
            IN IF ~name_valid(func_name) THEN None ELSE FuncStart(func_name)
     ELSE StatementPattern(Execution(split_whitespace(trimmed)))

from_line(s) ==
  LET trimmed == trim(s)
      idx == find(trimmed, {"="})
  IN IF trimmed = <<>> THEN Empty
     ELSE IF trimmed = <<"}">> THEN FuncEnd
     ELSE IF ends_with(trimmed, FuncStartSuffix)
       THEN LET func_name == SubSeq(trimmed, 1, Len(trimmed) - 3)
            IN IF ~name_valid(func_name) THEN None ELSE FuncStart(func_name)
     ELSE IF idx # 0
       THEN LET var_name == SubSeq(trimmed, 1, idx - 1)
            IN IF ~name_valid(var_name) THEN None
               ELSE StatementPattern(
                      Assignment(var_name, SubSeq(trimmed, idx + 1, Len(trimmed))))
     ELSE StatementPattern(Execution(split_whitespace(trimmed)))

(***************************************************************************)
(* ParseState and its transitions.  A transition yields the error kind     *)
(* ("none" when it succeeds), the next state and the program.              *)
(***************************************************************************)
Outside == [kind |-> "Outside"]
ConstructFunc(name, f) == [kind |-> "ConstructFunc", name |-> name, f |-> f]

EmptyMap == [x \in {} |-> <<>>]

insert_keep_first(map, k, v) ==
  [x \in (DOMAIN map) \cup {k} |-> IF x \in DOMAIN map THEN map[x] ELSE v]

insert(map, k, v) ==
  [x \in (DOMAIN map) \cup {k} |-> IF x = k THEN v ELSE map[x]]

Ok(state, prog) == [err |-> "none", state |-> state, program |-> prog]
Bail(kind, state, prog) == [err |-> kind, state |-> state, program |-> prog]

transform_lenient_outside(self, pattern, prog) ==
  IF pattern.kind = "FuncStart" THEN
    IF self.kind = "ConstructFunc" THEN Bail("nested_start", self, prog)
    ELSE Ok(ConstructFunc(pattern.name, <<>>), prog)
  ELSE IF pattern.kind = "FuncEnd" THEN
    IF self.kind = "ConstructFunc"
      THEN Ok(Outside, insert(prog, self.name, self.f))
      ELSE Ok(self, prog)
  ELSE IF pattern.kind = "Statement" THEN
    IF self.kind = "ConstructFunc"
      THEN Ok(ConstructFunc(self.name, Append(self.f, pattern.statement)), prog)
      ELSE Ok(self, prog)
  ELSE Ok(self, prog)

transform_nested_commits(self, pattern, prog) ==
  IF pattern.kind = "FuncStart" THEN
    IF self.kind = "ConstructFunc"
      THEN Ok(ConstructFunc(pattern.name, <<>>), insert(prog, self.name, self.f))
      ELSE Ok(ConstructFunc(pattern.name, <<>>), prog)
  ELSE IF pattern.kind = "FuncEnd" THEN
    IF self.kind = "ConstructFunc"
      THEN Ok(Outside, insert(prog, self.name, self.f))
      ELSE Bail("unmatched_end", self, prog)
  ELSE IF pattern.kind = "Statement" THEN
    IF self.kind = "ConstructFunc"
      THEN Ok(ConstructFunc(self.name, Append(self.f, pattern.statement)), prog)
      ELSE Bail("stmt_outside", self, prog)
  ELSE Ok(self, prog)

transform_empty_resets(self, pattern, prog) ==
  IF pattern.kind = "FuncStart" THEN
    IF self.kind = "ConstructFunc" THEN Bail("nested_start", self, prog)
    ELSE Ok(ConstructFunc(pattern.name, <<>>), prog)
  ELSE IF pattern.kind = "FuncEnd" THEN
    IF self.kind = "ConstructFunc"
      THEN Ok(Outside, insert(prog, self.name, self.f))
      ELSE Bail("unmatched_end", self, prog)
  ELSE IF pattern.kind = "Statement" THEN
    IF self.kind = "ConstructFunc"
      THEN Ok(ConstructFunc(self.name, Append(self.f, pattern.statement)), prog)
      ELSE Bail("stmt_outside", self, prog)
  ELSE Ok(Outside, prog)

transform(self, pattern, prog) ==
  IF pattern.kind = "FuncStart" THEN
    IF self.kind = "ConstructFunc" THEN Bail("nested_start", self, prog)
    ELSE Ok(ConstructFunc(pattern.name, <<>>), prog)
  ELSE IF pattern.kind = "FuncEnd" THEN
    IF self.kind = "ConstructFunc"
      THEN Ok(Outside, insert(prog, self.name, self.f))
      ELSE Bail("unmatched_end", self, prog)
  ELSE IF pattern.kind = "Statement" THEN
    IF self.kind = "ConstructFunc"
      THEN Ok(ConstructFunc(self.name, Append(self.f, pattern.statement)), prog)
      ELSE Bail("stmt_outside", self, prog)
  ELSE Ok(self, prog)

end_success_always(self) == "none"

end_success(self) ==
  IF self.kind = "ConstructFunc" THEN "unterminated" ELSE "none"

(***************************************************************************)
(* parse_to_ast: one iteration of the loop over the lines.                 *)
(***************************************************************************)
parse_line_skip_bad(l, self, prog) ==
  LET p == from_line(l)
  IN IF p # None THEN transform(self, p, prog) ELSE Ok(self, prog)

parse_line(l, self, prog) ==
  LET p == from_line(l)
  IN IF p # None THEN transform(self, p, prog) ELSE Bail("bad_line", self, prog)

(***************************************************************************)
(* Environment                                                             *)
(***************************************************************************)
exec_assignment_keep_first(tbl, assignment) ==
  IF assignment.variable \in DOMAIN tbl
    THEN tbl
    ELSE insert(tbl, assignment.variable, assignment.value)

exec_assignment(tbl, assignment) ==
  IF assignment.variable \in DOMAIN tbl
    THEN [tbl EXCEPT ![assignment.variable] = assignment.value]
    ELSE insert(tbl, assignment.variable, assignment.value)

expand_again(tbl, arg) ==
  LET once == IF starts_with(arg, "$")
                THEN LET name == SubSeq(arg, 2, Len(arg))
                     IN IF name \in DOMAIN tbl THEN tbl[name] ELSE <<>>
                ELSE arg
  IN IF starts_with(once, "$")
       THEN LET name == SubSeq(once, 2, Len(once))
            IN IF name \in DOMAIN tbl THEN tbl[name] ELSE <<>>
       ELSE once

expand(tbl, arg) ==
  IF starts_with(arg, "$")
    THEN LET name == SubSeq(arg, 2, Len(arg))
         IN IF name \in DOMAIN tbl THEN tbl[name] ELSE <<>>
    ELSE arg

cmdline_drop_empty(tbl, args) ==
  SelectSeq([i \in 1..Len(args) |-> expand(tbl, args[i])], LAMBDA x : x # <<>>)

(* The expanded command line of exec_execution. *)
cmdline(tbl, args) == [i \in 1..Len(args) |-> expand(tbl, args[i])]

(* The outcomes for which Command::status yields Err; for "ok" and          *)
(* "exit_nonzero" it yields Ok(status).                                    *)
StatusErr == {"spawn_failed", "wait_failed"}

map_err_println_never(o, reps, k) == reps

(* .map_err(|e| println!("Command failed: {}", e)) on the k-th invocation. *)
map_err_println(o, reps, k) == IF o \in StatusErr THEN Append(reps, k) ELSE reps

after_status_abort(o) == IF o = "ok" THEN "exec" ELSE "done"

(* let _ = ...: the result of the invocation is discarded, the loop goes on. *)
after_status(o) == "exec"

Main == <<"m", "a", "i", "n">>

ParseErrors ==
  {"io", "bad_line", "nested_start", "unmatched_end", "stmt_outside", "unterminated"}

NoLine == [tag |-> "none"]
Eof == [tag |-> "eof"]
IoError == [tag |-> "io_error"]
Line(l) == [tag |-> "line", text |-> l]

(* Nothing has been computed on fn_in yet. *)
NoResult == [kind |-> "NoResult"]

(***************************************************************************)
(* The state after Environment::new() at the head of run.                  *)
(***************************************************************************)
Init ==
  /\ pc = "open"
  /\ nread = 0
  /\ last = NoLine
  /\ parser = Outside
  /\ program = EmptyMap
  /\ err = "none"
  /\ main_func = <<>>
  /\ table = EmptyMap
  /\ ip = 1
  /\ calls = <<>>
  /\ outcomes = <<>>
  /\ reports = <<>>
  /\ discarded = {}
  /\ fn_in = <<>>
  /\ fn_out = NoResult

(* parse_file_to_ast: current_dir and File::open, either of which may fail. *)
OpenFile ==
  /\ pc = "open"
  /\ \E opened \in BOOLEAN :
       IF opened
         THEN pc' = "parse" /\ err' = err
         ELSE pc' = "error" /\ err' = "io"
  /\ UNCHANGED <<nread, last, parser, program,
                 main_func, table, ip, calls, outcomes, reports>>
  /\ UNCHANGED <<discarded, fn_in, fn_out>>

(***************************************************************************)
(* parse_to_ast: the line source yields a line.  discarded collects what   *)
(* program.insert returns and the code drops: the earlier definition of a  *)
(* function name that is committed again.                                  *)
(***************************************************************************)
ReadLine ==
  /\ pc = "parse"
  /\ nread < MaxLines
  /\ \E l \in InputLines :
       LET r == parse_line(l, parser, program)
       IN /\ last' = Line(l)
          /\ nread' = nread + 1
          /\ discarded' =
               IF r.err = "none" /\ parser.kind = "ConstructFunc"
                    /\ r.state.kind = "Outside" /\ parser.name \in DOMAIN program
                 THEN discarded \cup {[name |-> parser.name, f |-> program[parser.name]]}
                 ELSE discarded
          /\ IF r.err = "none"
               THEN /\ parser' = r.state
                    /\ program' = r.program
                    /\ UNCHANGED <<pc, err>>
               ELSE /\ pc' = "error"
                    /\ err' = r.err
                    /\ UNCHANGED <<parser, program>>
  /\ UNCHANGED <<main_func, table, ip, calls, outcomes, reports>>
  /\ UNCHANGED <<fn_in, fn_out>>

(* parse_to_ast: the line source fails to read a line (l?). *)
ReadFailure ==
  /\ pc = "parse"
  /\ nread < MaxLines
  /\ last' = IoError
  /\ nread' = nread + 1
  /\ pc' = "error"
  /\ err' = "io"
  /\ UNCHANGED <<parser, program, main_func, table, ip, calls, outcomes, reports>>
  /\ UNCHANGED <<discarded, fn_in, fn_out>>

(* parse_to_ast: the line source is exhausted; parser.end_success()?. *)
EndOfInput ==
  /\ pc = "parse"
  /\ last' = Eof
  /\ LET e == end_success(parser)
     IN IF e = "none"
          THEN pc' = "parsed" /\ err' = err
          ELSE pc' = "error" /\ err' = e
  /\ UNCHANGED <<nread, parser, program,
                 main_func, table, ip, calls, outcomes, reports>>
  /\ UNCHANGED <<discarded, fn_in, fn_out>>

run_lookup_ignoring_error ==
  /\ pc = "parsed" \/ (pc = "error" /\ err \in ParseErrors /\ Main \in DOMAIN program)
  /\ IF Main \in DOMAIN program
       THEN /\ main_func' = program[Main]
            /\ pc' = "exec"
            /\ err' = err
       ELSE /\ pc' = "error"
            /\ err' = "no_main"
            /\ UNCHANGED main_func
  /\ UNCHANGED <<nread, last, parser, program, table, ip, calls, outcomes, reports>>
  /\ UNCHANGED <<discarded, fn_in, fn_out>>

run_lookup_any_function ==
  /\ pc = "parsed"
  /\ IF DOMAIN program # {}
       THEN /\ \E n \in DOMAIN program :
                  /\ (Main \in DOMAIN program => n = Main)
                  /\ main_func' = program[n]
            /\ pc' = "exec"
            /\ err' = err
       ELSE /\ pc' = "error"
            /\ err' = "no_main"
            /\ UNCHANGED main_func
  /\ UNCHANGED <<nread, last, parser, program, table, ip, calls, outcomes, reports>>
  /\ UNCHANGED <<discarded, fn_in, fn_out>>

run_lookup_all_functions ==
  /\ pc = "parsed"
  /\ IF Main \in DOMAIN program
       THEN /\ main_func' =
                 LET others == (DOMAIN program) \ {Main}
                 IN IF others = {} THEN program[Main]
                    ELSE program[CHOOSE n \in others : TRUE] \o program[Main]
            /\ pc' = "exec"
            /\ err' = err
       ELSE /\ pc' = "error"
            /\ err' = "no_main"
            /\ UNCHANGED main_func
  /\ UNCHANGED <<nread, last, parser, program, table, ip, calls, outcomes, reports>>
  /\ UNCHANGED <<discarded, fn_in, fn_out>>

(* run: program.get("main"), after the parse has returned Ok(program). *)
run_lookup ==
  /\ pc = "parsed"
  /\ IF Main \in DOMAIN program
       THEN /\ main_func' = program[Main]
            /\ pc' = "exec"
            /\ err' = err
       ELSE /\ pc' = "error"
            /\ err' = "no_main"
            /\ UNCHANGED main_func
  /\ UNCHANGED <<nread, last, parser, program, table, ip, calls, outcomes, reports>>
  /\ UNCHANGED <<discarded, fn_in, fn_out>>

(* exec_function / exec_statement: the next statement is an Assignment. *)
ExecAssignment ==
  /\ pc = "exec"
  /\ ip <= Len(main_func)
  /\ main_func[ip].kind = "Assignment"
  /\ table' = exec_assignment(table, main_func[ip])
  /\ ip' = ip + 1
  /\ UNCHANGED <<pc, nread, last, parser, program, err,
                 main_func, calls, outcomes, reports>>
  /\ UNCHANGED <<discarded, fn_in, fn_out>>

ExecExecution_no_wait ==
  /\ pc = "exec"
  /\ ip <= Len(main_func)
  /\ main_func[ip].kind = "Execution"
  /\ LET cl == cmdline(table, main_func[ip].args)
     IN IF cl = <<>>
          THEN /\ ip' = ip + 1
               /\ UNCHANGED <<pc, calls, outcomes, reports>>
          ELSE /\ calls' = Append(calls,
                              [exec |-> cl[1], argv |-> Tail(cl), stmt |-> ip])
               /\ \E spawned \in BOOLEAN :
                    IF spawned
                      THEN /\ pc' = "exec"
                           /\ ip' = ip + 1
                           /\ UNCHANGED <<outcomes, reports>>
                      ELSE /\ outcomes' = Append(outcomes, "spawn_failed")
                           /\ reports' = map_err_println("spawn_failed", reports,
                                                         Len(calls) + 1)
                           /\ pc' = after_status("spawn_failed")
                           /\ ip' = ip + 1
  /\ UNCHANGED <<nread, last, parser, program, err, main_func, table>>
  /\ UNCHANGED <<discarded, fn_in, fn_out>>

(***************************************************************************)
(* exec_function / exec_statement: the next statement is an Execution.     *)
(* Command::status first spawns the process; when that fails the           *)
(* invocation is over, otherwise the executor blocks in wait.              *)
(***************************************************************************)
ExecExecution ==
  /\ pc = "exec"
  /\ ip <= Len(main_func)
  /\ main_func[ip].kind = "Execution"
  /\ LET cl == cmdline(table, main_func[ip].args)
     IN IF cl = <<>>
          THEN /\ ip' = ip + 1
               /\ UNCHANGED <<pc, calls, outcomes, reports>>
          ELSE /\ calls' = Append(calls,
                              [exec |-> cl[1], argv |-> Tail(cl), stmt |-> ip])
               /\ \E spawned \in BOOLEAN :
                    IF spawned
                      THEN /\ pc' = "wait"
                           /\ UNCHANGED <<ip, outcomes, reports>>
                      ELSE /\ outcomes' = Append(outcomes, "spawn_failed")
                           /\ reports' = map_err_println("spawn_failed", reports,
                                                         Len(calls) + 1)
                           /\ pc' = after_status("spawn_failed")
                           /\ ip' = ip + 1
  /\ UNCHANGED <<nread, last, parser, program, err, main_func, table>>
  /\ UNCHANGED <<discarded, fn_in, fn_out>>

(* The process in flight terminates, or waiting for it fails. *)
ProcessWait ==
  /\ pc = "wait"
  /\ \E o \in {"ok", "exit_nonzero", "wait_failed"} :
       /\ outcomes' = Append(outcomes, o)
       /\ reports' = map_err_println(o, reports, Len(calls))
       /\ pc' = after_status(o)
  /\ ip' = ip + 1
  /\ UNCHANGED <<nread, last, parser, program, err, main_func, table, calls>>
  /\ UNCHANGED <<discarded, fn_in, fn_out>>

ExecReturn_reenters ==
  /\ pc = "exec"
  /\ ip > Len(main_func)
  /\ pc' = "parsed"
  /\ UNCHANGED <<nread, last, parser, program, err,
                 main_func, table, ip, calls, outcomes, reports>>
  /\ UNCHANGED <<discarded, fn_in, fn_out>>

(* exec_function has run every statement; run returns Ok(()). *)
ExecReturn ==
  /\ pc = "exec"
  /\ ip > Len(main_func)
  /\ pc' = "done"
  /\ UNCHANGED <<nread, last, parser, program, err,
                 main_func, table, ip, calls, outcomes, reports>>
  /\ UNCHANGED <<discarded, fn_in, fn_out>>

Next ==
  \/ OpenFile
  \/ ReadLine
  \/ ReadFailure
  \/ EndOfInput
  \/ run_lookup
  \/ ExecAssignment
  \/ ExecExecution
  \/ ProcessWait
  \/ ExecReturn

Spec == Init /\ [][Next]_vars

(***************************************************************************)
(* Reference notions, read off a function's statement list in source       *)
(* order.                                                                  *)
(***************************************************************************)
HasExecution(f) == \E i \in 1..Len(f) : f[i].kind = "Execution"

(* The position of the last assignment to name before position s, else 0. *)
LastAssign(f, s, name) ==
  LET before == {j \in 1..(s - 1) :
                   f[j].kind = "Assignment" /\ f[j].variable = name}
  IN IF before = {} THEN 0
     ELSE CHOOSE j \in before : \A m \in before : m <= j

VarOf(tok) == SubSeq(tok, 2, Len(tok))

(* What token tok of statement s of f is to be passed as. *)
Expected(f, s, tok) ==
  IF starts_with(tok, "$")
    THEN LET j == LastAssign(f, s, VarOf(tok))
         IN IF j = 0 THEN <<>> ELSE f[j].value
    ELSE tok

(* The i-th element of an invocation: the executable, then the arguments. *)
Passed(c, i) == IF i = 1 THEN c.exec ELSE c.argv[i - 1]

ExecutionsUpTo(f, upto) == {s \in 1..upto : f[s].kind = "Execution"}

Reported(k) == \E r \in 1..Len(reports) : reports[r] = k

LineStep == pc = "parse" /\ nread' = nread + 1 /\ last'.tag = "line"

UnrecognizedExamples ==
  { <<"1", "f", "(", ")", "{">>,
    <<"a", "=", "b", "(", ")", "{">>,
    <<"=", "a">> }

(***************************************************************************)
(* C1: when parsing fails, for whatever reason, run invokes no external    *)
(* process, even when a complete main with Execution statements was        *)
(* committed before the failure.                                           *)
(***************************************************************************)
C1_ParseFailureRunsNothing ==
  err \in ParseErrors => (pc = "error" /\ calls = <<>> /\ outcomes = <<>>)

C1_Witness ==
  /\ pc = "error"
  /\ err \in ParseErrors
  /\ Main \in DOMAIN program
  /\ HasExecution(program[Main])

(***************************************************************************)
(* C2: every $x token of an invocation is passed as the value of the most  *)
(* recent assignment to x that precedes the statement in main, and the     *)
(* environment holds, for every variable, the value of its most recent     *)
(* assignment among the statements run so far.                             *)
(***************************************************************************)
C2_MostRecentAssignment ==
  /\ \A k \in 1..Len(calls) :
       LET c == calls[k]
           toks == main_func[c.stmt].args
       IN \A i \in 1..Len(toks) :
            (starts_with(toks[i], "$")
               /\ LastAssign(main_func, c.stmt, VarOf(toks[i])) # 0)
            => /\ Len(c.argv) = Len(toks) - 1
               /\ Passed(c, i)
                    = main_func[LastAssign(main_func, c.stmt, VarOf(toks[i]))].value
  /\ \A name \in DOMAIN table :
       /\ LastAssign(main_func, ip, name) # 0
       /\ table[name] = main_func[LastAssign(main_func, ip, name)].value

C2_Witness ==
  \E k \in 1..Len(calls) :
    LET c == calls[k]
        toks == main_func[c.stmt].args
    IN \E i \in 1..Len(toks) :
         /\ starts_with(toks[i], "$")
         /\ \E j \in 1..(c.stmt - 1) :
              /\ main_func[j].kind = "Assignment"
              /\ main_func[j].variable = VarOf(toks[i])
              /\ j # LastAssign(main_func, c.stmt, VarOf(toks[i]))
              /\ main_func[j].value # Passed(c, i)

(***************************************************************************)
(* C3: an Execution statement with tokens t1..tn is invoked with           *)
(* executable expand(t1) and exactly the n-1 arguments expand(t2..tn), in  *)
(* order; an undefined $-token is passed as the empty string, a token      *)
(* without $ unchanged, and a value is one argument whatever it contains.  *)
(***************************************************************************)
C3_InvocationShape ==
  \A k \in 1..Len(calls) :
    LET c == calls[k]
        toks == main_func[c.stmt].args
    IN /\ Len(toks) >= 1
       /\ c.exec = Expected(main_func, c.stmt, toks[1])
       /\ Len(c.argv) = Len(toks) - 1
       /\ \A i \in 1..Len(c.argv) :
            c.argv[i] = Expected(main_func, c.stmt, toks[i + 1])

C3_Witness ==
  \E k \in 1..Len(calls) :
    LET c == calls[k]
        toks == main_func[c.stmt].args
    IN /\ Len(toks) = 3
       /\ starts_with(toks[2], "$")
       /\ LastAssign(main_func, c.stmt, VarOf(toks[2])) = 0
       /\ c.argv[1] = <<>>
       /\ \E i \in 1..Len(c.argv[2]) : IsWhitespace(c.argv[2][i])

(***************************************************************************)
(* C4: a failing command never aborts the run.  The invocations made so    *)
(* far are exactly the Execution statements of main reached so far, once   *)
(* each and in source order; the run is done only when every statement     *)
(* has run; every assignment run so far is still in the environment.       *)
(***************************************************************************)
C4_FailureNeverAborts ==
  pc \in {"exec", "wait", "done"} =>
    LET upto == IF pc = "wait" THEN ip ELSE ip - 1
    IN /\ upto <= Len(main_func)
       /\ Len(calls) = Cardinality(ExecutionsUpTo(main_func, upto))
       /\ \A k \in 1..Len(calls) : calls[k].stmt \in ExecutionsUpTo(main_func, upto)
       /\ \A k, m \in 1..Len(calls) : k < m => calls[k].stmt < calls[m].stmt
       /\ (pc = "done" => ip = Len(main_func) + 1)
       /\ \A s \in 1..(ip - 1) :
            (s <= Len(main_func) /\ main_func[s].kind = "Assignment")
              => main_func[s].variable \in DOMAIN table

C4_Witness ==
  /\ pc = "done"
  /\ Len(outcomes) >= 2
  /\ outcomes[1] # "ok"
  /\ Len(calls) = Len(outcomes)
  /\ DOMAIN table # {}

(***************************************************************************)
(* C5, as stated: every invocation that did not succeed (spawn failure,    *)
(* wait failure, or unsuccessful exit) has a failure report.               *)
(***************************************************************************)
C5_EveryFailureReported ==
  \A k \in 1..Len(outcomes) : outcomes[k] # "ok" => Reported(k)

(***************************************************************************)
(* C5, amended: an invocation has a failure report, made in the step that  *)
(* ends it, exactly when the process could not be spawned or could not be  *)
(* waited for; an unsuccessful exit is not reported.                       *)
(***************************************************************************)
C5_SpawnOrWaitFailureReported ==
  /\ \A k \in 1..Len(outcomes) : outcomes[k] \in StatusErr <=> Reported(k)
  /\ \A r \in 1..Len(reports) : reports[r] \in 1..Len(outcomes)
  /\ \A r, q \in 1..Len(reports) : r < q => reports[r] < reports[q]

C5_Witness ==
  /\ \E k \in 1..Len(outcomes) : outcomes[k] = "spawn_failed" /\ Reported(k)
  /\ \E k \in 1..Len(outcomes) : outcomes[k] = "wait_failed" /\ Reported(k)
  /\ \E k \in 1..Len(outcomes) : outcomes[k] = "exit_nonzero" /\ ~Reported(k)

(***************************************************************************)
(* C6: when the input ends while a function is under construction, the     *)
(* parse fails as unterminated and no program reaches the executor,        *)
(* however many functions were committed before.                           *)
(***************************************************************************)
C6_UnterminatedFunctionFails ==
  [][(pc = "parse" /\ last' = Eof /\ parser.kind = "ConstructFunc")
       => (pc' = "error" /\ err' = "unterminated" /\ calls' = <<>>)]_vars

C6_Witness ==
  /\ pc = "error"
  /\ err = "unterminated"
  /\ last = Eof
  /\ parser.kind = "ConstructFunc"
  /\ Cardinality(DOMAIN program) >= 1

(***************************************************************************)
(* C7: in state Outside a Statement or FuncEnd line fails the parse; the   *)
(* parse goes on only after an Empty or FuncStart line.                    *)
(***************************************************************************)
C7_OutsideAcceptsOnlyFuncStart ==
  [][(LineStep /\ parser.kind = "Outside")
       => LET p == from_line(last'.text)
          IN /\ p.kind = "Statement" => (pc' = "error" /\ err' = "stmt_outside")
             /\ p.kind = "FuncEnd" => (pc' = "error" /\ err' = "unmatched_end")
             /\ pc' = "parse" => p.kind \in {"Empty", "FuncStart"}
             /\ (pc' = "parse" /\ p.kind = "Empty") => parser' = Outside
             /\ program' = program]_vars

C7_Witness ==
  /\ pc = "error"
  /\ err = "stmt_outside"
  /\ parser.kind = "Outside"
  /\ last.tag = "line"
  /\ from_line(last.text).kind = "Statement"
  /\ DOMAIN program # {}

(***************************************************************************)
(* C8: a FuncStart line while a function is under construction fails the   *)
(* parse; the function under construction is not committed, then or later. *)
(***************************************************************************)
C8_NestedFuncStartFails ==
  [][/\ (LineStep /\ parser.kind = "ConstructFunc"
           /\ from_line(last'.text).kind = "FuncStart")
          => (pc' = "error" /\ err' = "nested_start"
                /\ program' = program /\ parser' = parser)
     /\ (pc = "error" /\ err = "nested_start") => program' = program]_vars

C8_Witness ==
  /\ pc = "error"
  /\ err = "nested_start"
  /\ parser.kind = "ConstructFunc"
  /\ parser.name \notin DOMAIN program
  /\ Len(parser.f) >= 1

(***************************************************************************)
(* C9: a line the classifier yields no pattern for fails the parse as a    *)
(* bad line in every parser state; it is never skipped.                    *)
(***************************************************************************)
C9_UnrecognizedLineFails ==
  [][(LineStep /\ (from_line(last'.text) = None
                     \/ last'.text \in UnrecognizedExamples))
       => (pc' = "error" /\ err' = "bad_line"
             /\ parser' = parser /\ program' = program)]_vars

C9_Witness ==
  /\ pc = "error"
  /\ err = "bad_line"
  /\ last.tag = "line"
  /\ last.text \in UnrecognizedExamples
  /\ parser.kind = "ConstructFunc"

(***************************************************************************)
(* C10: once parsing has succeeded and the lookup is over, a program with  *)
(* no function named main has made run fail with the no-entry-function     *)
(* error, with no process invoked.                                         *)
(***************************************************************************)
C10_NoMainFails ==
  /\ (pc \in {"exec", "wait", "done"} \/ err = "no_main")
       => (Main \notin DOMAIN program
             => (pc = "error" /\ err = "no_main" /\ calls = <<>>))
  /\ err = "no_main" => Main \notin DOMAIN program

C10_Witness ==
  /\ pc = "error"
  /\ err = "no_main"
  /\ \E n \in DOMAIN program : HasExecution(program[n])

(***************************************************************************)
(* C11: committing a function whose name is already defined replaces the   *)
(* earlier statement list by exactly the new one, without an error and     *)
(* without touching other functions; run executes the list the program     *)
(* holds for main, which is the last definition.                           *)
(***************************************************************************)
C11_LastDefinitionWins ==
  [][/\ (LineStep /\ parser.kind = "ConstructFunc"
           /\ from_line(last'.text) = FuncEnd)
          => /\ pc' = "parse"
             /\ err' = "none"
             /\ parser' = Outside
             /\ DOMAIN program' = (DOMAIN program) \cup {parser.name}
             /\ program'[parser.name] = parser.f
             /\ \A n \in (DOMAIN program) \ {parser.name} : program'[n] = program[n]
     /\ (pc = "parsed" /\ pc' = "exec") => main_func' = program[Main]]_vars

C11_Witness ==
  /\ pc = "done"
  /\ main_func = program[Main]
  /\ \E d \in discarded :
       /\ d.name = Main
       /\ d.f # <<>>
       /\ \A i \in 1..Len(d.f) : \A j \in 1..Len(main_func) : d.f[i] # main_func[j]

(***************************************************************************)
(* The environment and the invocations that the first n statements of a    *)
(* statement list f give, by the language's semantics.                     *)
(***************************************************************************)
RECURSIVE RefEnv(_, _)
RefEnv(f, n) ==
  IF n = 0 THEN EmptyMap
  ELSE LET e == RefEnv(f, n - 1)
       IN IF f[n].kind = "Assignment"
            THEN [x \in (DOMAIN e) \cup {f[n].variable} |->
                    IF x = f[n].variable THEN f[n].value ELSE e[x]]
            ELSE e

RECURSIVE RefCalls(_, _)
RefCalls(f, n) ==
  IF n = 0 THEN <<>>
  ELSE LET prev == RefCalls(f, n - 1)
       IN IF f[n].kind = "Execution"
            THEN Append(prev,
                   [exec |-> Expected(f, n, f[n].args[1]),
                    argv |-> [i \in 1..(Len(f[n].args) - 1) |->
                                Expected(f, n, f[n].args[i + 1])],
                    stmt |-> n])
            ELSE prev

(***************************************************************************)
(* C12: only main is executed.  While and after run executes, the          *)
(* invocations and the environment are those of main's statement list      *)
(* alone, up to the statement reached; no other function contributes.      *)
(***************************************************************************)
C12_OnlyMainExecuted ==
  /\ pc \in {"exec", "wait", "done"} =>
       LET f == program[Main]
           upto == IF pc = "wait" THEN ip ELSE ip - 1
       IN /\ upto <= Len(f)
          /\ calls = RefCalls(f, upto)
          /\ table = RefEnv(f, ip - 1)
  /\ pc \notin {"exec", "wait", "done"} => (calls = <<>> /\ table = EmptyMap)

C12_Witness ==
  /\ pc = "done"
  /\ \E n \in (DOMAIN program) \ {Main} : program[n] # <<>>
  /\ calls = RefCalls(program[Main], Len(program[Main]))

(***************************************************************************)
(* C13: an assignment stores its value verbatim and expansion is           *)
(* single-level.  When the last assignment to x before an invocation has   *)
(* a value beginning with $ (x=$y), the environment holds that very text   *)
(* and a token $x is passed as that text, whatever y holds.                *)
(***************************************************************************)
C13_ValuesVerbatim ==
  /\ \A name \in DOMAIN table :
       LET j == LastAssign(main_func, ip, name)
       IN (j # 0 /\ starts_with(main_func[j].value, "$"))
            => table[name] = main_func[j].value
  /\ \A k \in 1..Len(calls) :
       LET c == calls[k]
           toks == main_func[c.stmt].args
       IN \A i \in 1..Len(toks) :
            LET j == IF starts_with(toks[i], "$")
                       THEN LastAssign(main_func, c.stmt, VarOf(toks[i]))
                       ELSE 0
            IN (j # 0 /\ starts_with(main_func[j].value, "$"))
                 => (Passed(c, i) = main_func[j].value
                       /\ starts_with(Passed(c, i), "$"))

C13_Witness ==
  \E k \in 1..Len(calls) :
    LET c == calls[k]
        toks == main_func[c.stmt].args
    IN \E i \in 1..Len(toks) :
         /\ starts_with(toks[i], "$")
         /\ Passed(c, i) = <<"$", "y">>
         /\ LastAssign(main_func, c.stmt, <<"y">>) # 0
         /\ LastAssign(main_func, c.stmt, <<"y">>)
              < LastAssign(main_func, c.stmt, VarOf(toks[i]))

(***************************************************************************)
(* Specifications of the pure functions: the argument is drawn from a      *)
(* bounded set of strings, the one action applies the function to it.      *)
(* The interpreter's own variables stay as run finds them.                 *)
(***************************************************************************)
Strings(alphabet, n) == UNION {[1..k -> alphabet] : k \in 0..n}

Idle ==
  /\ nread = 0
  /\ last = NoLine
  /\ parser = Outside
  /\ program = EmptyMap
  /\ err = "none"
  /\ main_func = <<>>
  /\ table = EmptyMap
  /\ ip = 1
  /\ calls = <<>>
  /\ outcomes = <<>>
  /\ reports = <<>>
  /\ discarded = {}

IdleVars == <<nread, last, parser, program, err, main_func, table, ip,
              calls, outcomes, reports, discarded>>

BoolResult(b) == [kind |-> "Bool", value |-> b]

(* The longest name drawn. *)
MaxNameLen == 3

NameAlphabet == {"a", "1", "{", "}", "(", ")", "=", " ", "$"}

(* The cases of test_name_valid. *)
TestNames ==
  { [name |-> <<"h", "e", "l", "l", "o">>, valid |-> TRUE],
    [name |-> <<"h", "e", "l", "l", "o", "_", "1", "2", "3">>, valid |-> TRUE],
    [name |-> <<"h", "e", "l", "l", "o", "{">>, valid |-> FALSE],
    [name |-> <<"h", "e", "l", "l", "o", "(">>, valid |-> FALSE],
    [name |-> <<"h", "e", "l", "}", "l", "o">>, valid |-> FALSE],
    [name |-> <<"h", "e", "l", ")", "l", "o">>, valid |-> FALSE],
    [name |-> <<"1", "e">>, valid |-> FALSE],
    [name |-> <<"1", "i", "s", "t">>, valid |-> FALSE],
    [name |-> <<>>, valid |-> FALSE] }

NameInputs == Strings(NameAlphabet, MaxNameLen) \cup {t.name : t \in TestNames}

NameInit ==
  /\ pc = "name_valid"
  /\ fn_in \in NameInputs
  /\ fn_out = NoResult
  /\ Idle

CallNameValid ==
  /\ pc = "name_valid"
  /\ fn_out' = BoolResult(name_valid(fn_in))
  /\ pc' = "name_valid_done"
  /\ UNCHANGED fn_in
  /\ UNCHANGED IdleVars

NameNext == CallNameValid

NameSpec == NameInit /\ [][NameNext]_vars

(***************************************************************************)
(* C14: name_valid(s) is true exactly when s is non-empty, does not begin  *)
(* with a decimal digit and holds none of { } ( ) =; no other character    *)
(* makes a name invalid.  The cases of test_name_valid come out as the     *)
(* test expects.                                                           *)
(***************************************************************************)
C14_NameValidExact ==
  pc = "name_valid_done" =>
    /\ fn_out.value <=>
         /\ fn_in # <<>>
         /\ fn_in[1] \notin {"0", "1", "2", "3", "4", "5", "6", "7", "8", "9"}
         /\ \A i \in 1..Len(fn_in) : fn_in[i] \notin {"{", "}", "(", ")", "="}
    /\ \A t \in TestNames : fn_in = t.name => fn_out.value = t.valid

C14_Witness ==
  /\ pc = "name_valid_done"
  /\ fn_in = <<"$", " ", "a">>
  /\ fn_out = BoolResult(TRUE)

(* The longest line drawn. *)
MaxLineLen == 5

LineAlphabet == {" ", "}", "{", "(", ")", "=", "a", "1"}

LineInit ==
  /\ pc = "from_line"
  /\ fn_in \in Strings(LineAlphabet, MaxLineLen)
  /\ fn_out = NoResult
  /\ Idle

CallFromLine ==
  /\ pc = "from_line"
  /\ fn_out' = from_line(fn_in)
  /\ pc' = "from_line_done"
  /\ UNCHANGED fn_in
  /\ UNCHANGED IdleVars

LineNext == CallFromLine

LineSpec == LineInit /\ [][LineNext]_vars

(***************************************************************************)
(* The five-rule, first-match-wins reference classifier, stated on         *)
(* positions of the line.                                                  *)
(***************************************************************************)
RefValidName(s) ==
  /\ s # <<>>
  /\ s[1] \notin {"0", "1", "2", "3", "4", "5", "6", "7", "8", "9"}
  /\ \A i \in 1..Len(s) : s[i] \notin {"{", "}", "(", ")", "="}

RefTrim(s) ==
  LET solid == {i \in 1..Len(s) : s[i] \notin {" ", "\t"}}
  IN IF solid = {} THEN <<>>
     ELSE SubSeq(s, CHOOSE i \in solid : \A j \in solid : i <= j,
                    CHOOSE i \in solid : \A j \in solid : j <= i)

(* The maximal runs of non-whitespace characters of s, left to right. *)
RefTokens(s) ==
  LET solid(i) == s[i] \notin {" ", "\t"}
      runs == {r \in (1..Len(s)) \X (1..Len(s)) :
                 /\ r[1] <= r[2]
                 /\ \A i \in r[1]..r[2] : solid(i)
                 /\ (r[1] = 1 \/ ~solid(r[1] - 1))
                 /\ (r[2] = Len(s) \/ ~solid(r[2] + 1))}
      nth(k) == CHOOSE r \in runs :
                  Cardinality({q \in runs : q[1] < r[1]}) = k - 1
  IN [k \in 1..Cardinality(runs) |-> SubSeq(s, nth(k)[1], nth(k)[2])]

RefClassify(line) ==
  LET t == RefTrim(line)
      n == Len(t)
      eqs == {i \in 1..n : t[i] = "="}
  IN IF t = <<>> THEN Empty
     ELSE IF t = <<"}">> THEN FuncEnd
     ELSE IF n >= 3 /\ t[n - 2] = "(" /\ t[n - 1] = ")" /\ t[n] = "{"
       THEN IF RefValidName(SubSeq(t, 1, n - 3))
              THEN FuncStart(SubSeq(t, 1, n - 3))
              ELSE None
     ELSE IF eqs # {}
       THEN LET first == CHOOSE i \in eqs : \A j \in eqs : i <= j
            IN IF RefValidName(SubSeq(t, 1, first - 1))
                 THEN StatementPattern(
                        Assignment(SubSeq(t, 1, first - 1), SubSeq(t, first + 1, n)))
                 ELSE None
     ELSE StatementPattern(Execution(RefTokens(t)))

(***************************************************************************)
(* C15: from_line agrees with the five-rule reference on every line.  A    *)
(* line ending in (){ is a FuncStart or unrecognized, also when it holds   *)
(* an =; an Assignment's variable holds no = and its value is all that     *)
(* follows the first =.                                                    *)
(***************************************************************************)
C15_ClassifierAgrees ==
  pc = "from_line_done" =>
    LET t == RefTrim(fn_in)
    IN /\ fn_out = RefClassify(fn_in)
       /\ ends_with(t, <<"(", ")", "{">>) => fn_out.kind \in {"FuncStart", "None"}
       /\ (fn_out.kind = "Statement" /\ fn_out.statement.kind = "Assignment")
            => /\ t = fn_out.statement.variable \o <<"=">> \o fn_out.statement.value
               /\ \A i \in 1..Len(fn_out.statement.variable) :
                    fn_out.statement.variable[i] # "="

C15_Witness ==
  /\ pc = "from_line_done"
  /\ fn_in = <<"a", "=", "(", ")", "{">>
  /\ fn_out = None

(***************************************************************************)
(* C16: a line that is empty or all whitespace is a no-op in every parser  *)
(* state: the parse goes on with the same state, the name and partial      *)
(* statement list of a function under construction included, and the same  *)
(* program.                                                                *)
(***************************************************************************)
C16_BlankLineIsNoOp ==
  [][(LineStep /\ \A i \in 1..Len(last'.text) : last'.text[i] \in {" ", "\t"})
       => /\ pc' = "parse"
          /\ err' = err
          /\ parser' = parser
          /\ program' = program
          /\ discarded' = discarded]_vars

C16_Witness ==
  /\ pc = "parse"
  /\ last = Line(<<" ", "\t">>)
  /\ parser.kind = "ConstructFunc"
  /\ Len(parser.f) >= 1
  /\ DOMAIN program # {}

(* The processes started and not yet ended. *)
InFlight == Len(calls) - Len(outcomes)

(***************************************************************************)
(* C17: external processes never overlap.  At most one process is in       *)
(* flight, and exactly while the executor waits; while it is in flight     *)
(* the executor still stands at its statement: no later statement has      *)
(* been invoked and no later assignment applied.                           *)
(***************************************************************************)
C17_NoOverlap ==
  /\ InFlight \in {0, 1}
  /\ InFlight = 1 <=> pc = "wait"
  /\ pc = "wait" =>
       /\ ip <= Len(main_func)
       /\ calls[Len(calls)].stmt = ip
       /\ \A k \in 1..(Len(calls) - 1) : calls[k].stmt < ip
       /\ table = RefEnv(main_func, ip - 1)

C17_Witness ==
  /\ pc = "wait"
  /\ Len(calls) = 2
  /\ Len(outcomes) = 1
  /\ ip < Len(main_func)

(* The statement lists the parse holds: committed or under construction. *)
AllFunctions ==
  {program[n] : n \in DOMAIN program}
    \cup (IF parser.kind = "ConstructFunc" THEN {parser.f} ELSE {})

(***************************************************************************)
(* C18: every Execution statement the parse holds has at least one token,  *)
(* and every Execution statement of main that has been reached, one with   *)
(* a lone executable name included, has exactly one invocation.            *)
(***************************************************************************)
C18_ExecutionNeverEmpty ==
  /\ \A f \in AllFunctions \cup {main_func} :
       \A i \in 1..Len(f) : f[i].kind = "Execution" => Len(f[i].args) >= 1
  /\ pc \in {"exec", "wait", "done"} =>
       \A s \in 1..Len(main_func) :
         main_func[s].kind = "Execution" =>
           Cardinality({k \in 1..Len(calls) : calls[k].stmt = s})
             = IF s < ip \/ (s = ip /\ pc = "wait") THEN 1 ELSE 0

C18_Witness ==
  /\ pc = "done"
  /\ \E k \in 1..Len(calls) :
       /\ calls[k].argv = <<>>
       /\ Len(main_func[calls[k].stmt].args) = 1

(***************************************************************************)
(* The steps run takes by itself, and the specification in which it keeps  *)
(* taking them (the line source answers every read, with a line, a         *)
(* failure or the end of input) and every process in flight ends.          *)
(***************************************************************************)
ProgramStep ==
  \/ OpenFile
  \/ ReadLine
  \/ ReadFailure
  \/ EndOfInput
  \/ run_lookup
  \/ ExecAssignment
  \/ ExecExecution
  \/ ExecReturn

LiveSpec == Init /\ [][Next]_vars /\ WF_vars(ProgramStep) /\ WF_vars(ProcessWait)

Terminated == pc \in {"done", "error"}

(* What is left of the run: the phase, then the lines or statements in it. *)
Remaining ==
  LET span == 2 * MaxLines + 4
  IN CASE pc = "open" -> 4 * span
       [] pc = "parse" -> 3 * span + (MaxLines - nread) + 1
       [] pc = "parsed" -> 2 * span
       [] pc = "exec" -> span + 2 * (Len(main_func) + 1 - ip) + 1
       [] pc = "wait" -> span + 2 * (Len(main_func) + 1 - ip)
       [] OTHER -> 0

(***************************************************************************)
(* C19: a run terminates when every process it starts terminates.  Every   *)
(* step consumes a line or a statement or ends a phase, so none is         *)
(* entered again, and run eventually returns: Ok when main was found and   *)
(* run, an error otherwise.                                                *)
(***************************************************************************)
C19_RunTerminates ==
  /\ <>Terminated
  /\ [][Remaining' < Remaining /\ Remaining' >= 0]_vars
  /\ [](pc = "done" => (err = "none" /\ Main \in DOMAIN program
                          /\ ip = Len(main_func) + 1))
  /\ [](pc = "error" => err # "none")

C19_Witness ==
  /\ pc = "done"
  /\ nread >= 4
  /\ Len(main_func) = 3
  /\ Len(outcomes) >= 1
  /\ InFlight = 0

HasWhitespace(s) == \E i \in 1..Len(s) : s[i] \in {" ", "\t"}

(* The names of the functions the parse holds. *)
AllFunctionNames ==
  (DOMAIN program) \cup (IF parser.kind = "ConstructFunc" THEN {parser.name} ELSE {})

(* The tokens of the Execution statements the parse holds. *)
AllTokens ==
  UNION {UNION {{f[i].args[t] : t \in 1..Len(f[i].args)} :
                  i \in {j \in 1..Len(f) : f[j].kind = "Execution"}} :
           f \in AllFunctions}

(* The variables of the Assignment statements the parse holds. *)
AllVariables ==
  UNION {{f[i].variable : i \in {j \in 1..Len(f) : f[j].kind = "Assignment"}} :
           f \in AllFunctions}

(***************************************************************************)
(* C20: in what the parse holds, no Execution token contains = (or         *)
(* whitespace), every function name and every Assignment variable is a     *)
(* valid name, and a variable containing whitespace, which a line such as  *)
(* `e a=b` yields, is named by no $-token; its value is never passed.      *)
(***************************************************************************)
C20_ProgramShape ==
  /\ \A tok \in AllTokens :
       \A i \in 1..Len(tok) : tok[i] \notin {"=", " ", "\t"}
  /\ \A n \in AllFunctionNames : RefValidName(n)
  /\ \A v \in AllVariables : RefValidName(v)
  /\ \A v \in AllVariables \cup DOMAIN table :
       HasWhitespace(v) => \A tok \in AllTokens : tok # <<"$">> \o v
  /\ (last.tag = "line" /\ last.text = <<"e", " ", "a", "=", "b">>
        /\ pc = "parse" /\ parser.kind = "ConstructFunc")
       => parser.f[Len(parser.f)] = Assignment(<<"e", " ", "a">>, <<"b">>)

C20_Witness ==
  /\ pc = "done"
  /\ <<"e", " ", "a">> \in DOMAIN table
  /\ table[<<"e", " ", "a">>] = <<"b">>
  /\ \E k \in 1..Len(calls) :
       starts_with(main_func[calls[k].stmt].args[1], "$")

====
